---- MODULE Spec2Model ----
(***************************************************************************)
(* Model of the knowledge-graph builder of PoliGraph                       *)
(* (privacy_policy_analyzer/scripts/build_graph.py): the DAG-safe edge     *)
(* insertion, the five passes of stage 1, the projection of stage 2 and    *)
(* the corpus loop of main().                                              *)
(*                                                                         *)
(* A networkx graph is a record [node, edge]: node is the set of nodes and *)
(* edge maps every edge key to its attribute dictionary.  The key of an    *)
(* edge of a DiGraph is <<u, v>>, the key of an edge of a MultiDiGraph is  *)
(* <<u, v, k>>.                                                            *)
(***************************************************************************)
EXTENDS Integers, Sequences, FiniteSets, TLC

(***************************************************************************)
(* Bounds of the model.                                                    *)
(***************************************************************************)
\* nodes of the graphs handed to dag_add_edge in SpecDag
NumDagNodes == 3

\* tokens of the document's token-relationship graph
NumTokens == 3

\* edges of the document's token-relationship graph
MaxRelEdges == 2

\* phrases expand_phrase yields for one head token
MaxPhrases == 1

\* edges of the token-relationship graph of the documents of SpecMerge
MaxMergeEdges == 3

\* input directories of a run of main()
NumDocs == 4

\* policy files the driver finds
NumFiles == 2

\* tokens of the sentence expand_phrase works on
NumWords == 3

DagNodes == 1..NumDagNodes

Tokens == 1..NumTokens

\* token._.ent_type; an absent label takes no case of the match, like "NN"
EntTypes == {"NN", "DATA", "ACTOR", "OTHER"}

Rels == {"COLLECT", "NOT_COLLECT", "SUBSUM", "COREF", "PURPOSE"}

(***************************************************************************)
(* networkx primitives                                                     *)
(***************************************************************************)
NoEdges == [k \in {} |-> [relationship |-> "SUBSUM"]]

EmptyGraph == [node |-> {}, edge |-> NoEdges]

\* dict.update: the new attributes override, the others are kept
UpdateAttr(old, new) ==
    [a \in (DOMAIN old) \cup (DOMAIN new) |->
        IF a \in DOMAIN new THEN new[a] ELSE old[a]]

\* G.add_node / G.add_nodes_from
add_nodes(G, ns) == [G EXCEPT !.node = @ \cup ns]

\* G.add_edge(u, v, [key], **attr): creates both endpoints when missing; an
\* edge that already exists under that key has its attributes updated
add_edge(G, e, attr) ==
    [node |-> G.node \cup {e[1], e[2]},
     edge |-> [k \in (DOMAIN G.edge) \cup {e} |->
                  IF k = e
                  THEN IF e \in DOMAIN G.edge THEN UpdateAttr(G.edge[e], attr) ELSE attr
                  ELSE G.edge[k]]]

\* G.remove_edges_from
remove_edges(G, es) ==
    [G EXCEPT !.edge = [k \in (DOMAIN G.edge) \ es |-> G.edge[k]]]

\* G.remove_nodes_from: the nodes and every edge incident to them
remove_nodes(G, ns) ==
    [node |-> G.node \ ns,
     edge |-> [k \in {x \in DOMAIN G.edge : x[1] \notin ns /\ x[2] \notin ns} |-> G.edge[k]]]

Predecessors(G, n) == {k[1] : k \in {x \in DOMAIN G.edge : x[2] = n}}

Successors(G, n) == {k[2] : k \in {x \in DOMAIN G.edge : x[1] = n}}

\* the breadth-first search of nx.ancestors over the reversed graph
RECURSIVE bfs_reverse(_, _, _)
bfs_reverse(G, frontier, seen) ==
    LET next == (UNION {Predecessors(G, x) : x \in frontier}) \ seen
    IN  IF next = {} THEN seen ELSE bfs_reverse(G, next, seen \cup next)

\* nx.ancestors(G, n): every node with a path to n, n itself excluded
ancestors(G, n) == bfs_reverse(G, {n}, {n}) \ {n}

\* a slip that looks along the edges instead of against them
RECURSIVE bfs_forward(_, _, _)
bfs_forward(G, frontier, seen) ==
    LET next == (UNION {Successors(G, x) : x \in frontier}) \ seen
    IN  IF next = {} THEN seen ELSE bfs_forward(G, next, seen \cup next)

\* mutant of dag_add_edge: tests the descendants of n1, not its ancestors
dag_add_edge_descendants(G, n1, n2, e, attr) ==
    IF n1 = n2 \/ n2 \in (bfs_forward(G, {n1}, {n1}) \ {n1})
    THEN [G |-> G, ok |-> FALSE]
    ELSE [G |-> add_edge(G, e, attr), ok |-> TRUE]

\* mutant of dag_add_edge: rejects self-loops only
dag_add_edge_selfloop_only(G, n1, n2, e, attr) ==
    IF n1 = n2
    THEN [G |-> G, ok |-> FALSE]
    ELSE [G |-> add_edge(G, e, attr), ok |-> TRUE]

\* mutant of dag_add_edge: inserts first and tests afterwards
dag_add_edge_insert_first(G, n1, n2, e, attr) ==
    IF n1 = n2 \/ n2 \in ancestors(G, n1)
    THEN [G |-> add_edge(G, e, attr), ok |-> FALSE]
    ELSE [G |-> add_edge(G, e, attr), ok |-> TRUE]

\* dag_add_edge(G, n1, n2, *args, **kwargs); e is the key of the edge
\* (<<n1, n2>> or <<n1, n2, key>>), G the graph after the call, ok its result
dag_add_edge(G, n1, n2, e, attr) ==
    IF n1 = n2 \/ n2 \in ancestors(G, n1)
    THEN [G |-> G, ok |-> FALSE]
    ELSE [G |-> add_edge(G, e, attr), ok |-> TRUE]

(***************************************************************************)
(* Graph notions the properties are stated with (not used by the code)     *)
(***************************************************************************)
Arcs(G) == {<<k[1], k[2]>> : k \in DOMAIN G.edge}

RECURSIVE TransitiveClosure(_)
TransitiveClosure(R) ==
    LET R2 == R \cup {<<p[1][1], p[2][2]>> : p \in {q \in R \X R : q[1][2] = q[2][1]}}
    IN  IF R2 = R THEN R ELSE TransitiveClosure(R2)

HasPath(G, u, v) == <<u, v>> \in TransitiveClosure(Arcs(G))

IsAcyclic(G) == \A p \in TransitiveClosure(Arcs(G)) : p[1] # p[2]

(***************************************************************************)
(* The document: texts and the external normalization services             *)
(***************************************************************************)
\* purpose_part.text of the subtree of a purpose root: the document reads the
\* same purpose phrase at the odd tokens and another one at the even tokens
purpose_text(p) == IF p % 2 = 1 THEN "provide the service" ELSE "show ads"

\* PurposeClassifier.classify, one label per text
classify(text) == IF text = "provide the service" THEN "services" ELSE "advertising"

DATATYPE_KEYWORDS == {"address", "data", "information"}

ACTOR_KEYWORDS == {"company"}

\* What the services answer for one phrase of expand_phrase: the terms of the
\* DATA and of the ACTOR rule-based normalizer, the lemmas simplify_phrase
\* leaves, whether the phrase holds a PROPN token and the name the entity
\* matcher finds for its text ("" for none).
Phrase(dr, ar, s, pn, en) ==
    [data_rule |-> dr, actor_rule |-> ar, simplified |-> s, propn |-> pn, entity |-> en]

\* the phrases the heads of the document of Spec expand to: "your email
\* address", "we" and a phrase of trivial words only ("such")
PhraseInputs ==
    { Phrase({"email address"}, {}, "email address", FALSE, ""),
      Phrase({}, {"first party"}, "we", FALSE, ""),
      Phrase({}, {}, "", FALSE, "") }

\* the phrases the heads of the documents of SpecSentinel expand to: "we",
\* "third party", "information" and "company"
PhraseSentinels ==
    { Phrase({}, {"first party"}, "we", FALSE, ""),
      Phrase({}, {"third party"}, "third party", FALSE, ""),
      Phrase({}, {}, "information", FALSE, ""),
      Phrase({}, {}, "company", FALSE, "") }

\* lines 287-316: the terms of one phrase, or the ValueError of the last case
normalize_phrase(type, ph) ==
    CASE type = "DATA" ->
            [raised |-> FALSE,
             terms |->
                IF ph.data_rule # {} THEN ph.data_rule
                ELSE IF ph.simplified = "" THEN {}
                ELSE IF ph.simplified \in {"data", "datum", "information"}
                     THEN {"UNSPECIFIC_DATA"}
                ELSE IF ph.simplified \notin DATATYPE_KEYWORDS THEN {ph.simplified}
                ELSE {}]
      [] type = "ACTOR" ->
            LET named == IF ph.propn /\ ph.entity # ""
                         THEN ph.actor_rule \cup {ph.entity} ELSE ph.actor_rule
            IN  [raised |-> FALSE,
                 terms |->
                    IF named # {} THEN named
                    ELSE IF ph.simplified = "" \/ ph.simplified = "you" THEN {}
                    ELSE IF ph.simplified \in ACTOR_KEYWORDS THEN {"UNSPECIFIC_ENTITY"}
                    ELSE {ph.simplified}]
      [] OTHER -> [raised |-> TRUE, terms |-> {}]

\* the sentence of a token: two tokens to a sentence, all in one segment
sentence_of(t) == (t + 1) \div 2

(***************************************************************************)
(* Helpers                                                                 *)
(***************************************************************************)
Min(S) == CHOOSE x \in S : \A y \in S : x <= y

\* the elements of a set of numbers in ascending order
RECURSIVE Ascending(_)
Ascending(S) == IF S = {} THEN <<>> ELSE <<Min(S)>> \o Ascending(S \ {Min(S)})

\* every order the elements of S can be listed in
RECURSIVE Orders(_)
Orders(S) ==
    IF S = {} THEN {<<>>}
    ELSE UNION {{<<x>> \o q : q \in Orders(S \ {x})} : x \in S}

Range(q) == {q[i] : i \in 1..Len(q)}

Position(q, x) == CHOOSE i \in 1..Len(q) : q[i] = x

Remove(q, S) == SelectSeq(q, LAMBDA x : x \notin S)

\* nx.topological_sort (Kahn's algorithm by generations of
\* nx.topological_generations): the nodes without a remaining predecessor, in
\* node order, then the nodes they release; order lists the nodes, done the
\* generations already yielded
RECURSIVE topological_generations(_, _, _)
topological_generations(G, order, done) ==
    LET zero_indegree ==
            SelectSeq(order, LAMBDA v : v \notin Range(done)
                                        /\ Predecessors(G, v) \subseteq Range(done))
    IN  IF zero_indegree = <<>> THEN done
        ELSE topological_generations(G, order, done \o zero_indegree)

topological_sort(G, order) == topological_generations(G, order, <<>>)

\* mutant of Reverse: the order is kept
Reverse_kept(q) == q

Reverse(q) == [i \in 1..Len(q) |-> q[Len(q) + 1 - i]]

(***************************************************************************)
(* State                                                                   *)
(***************************************************************************)
VARIABLES
    dg,      \* SpecDag: the graph dag_add_edge is called on
    dcall,   \* SpecDag: the last call: arguments, graph before, result
    ent_type,            \* document: token._.ent_type of every token
    phrases,             \* document: the phrases its head tokens can expand to
    token_relationship,  \* document.token_relationship
    pc,                  \* position of build_graph
    stage1_graph,        \* stage1_graph: nodes and edges (edge attributes)
    node_order,          \* stage1_graph.nodes in insertion order
    ntype,               \* stage1_graph.nodes[n]["type"], "unset" when n is no node
    todo,                \* step 2: COLLECT / NOT_COLLECT edges still to visit
    bfs_queue,           \* step 3
    visited_nodes,       \* step 3
    src1,                \* step 3: the dequeued node whose edges are visited, 0 for none
    edge_view,           \* step 3: [ins, outs]: edges of src1 still to visit
    topo,                \* step 5: the nodes still to visit, in the order of the loop
    normalized_terms,    \* stage1_graph.nodes[n]["normalized_terms"], where set
    coref_main,          \* stage1_graph.nodes[n]["coref_main"], where set
    expansion,           \* step 5: expand_phrase(token) of the nodes it was called for
    rerun,               \* step 5: the pass it is in and the terms of the pass before
    stage2_graph,        \* stage2_graph: nodes and edges (edge attributes)
    stage2_type,         \* stage2_graph.nodes[n]["type"]
    s1_edges,            \* stage 2: the edges of stage 1 the loop has still to reach
    cur,                 \* stage 2: the edge of stage 1 being projected, <<>> for none
    product,             \* stage 2: the pairs of terms of cur still to come
    ins,                 \* the last edge insertion: graph, routine, relationship
    workdirs,            \* main(): what happens to each input directory
    d,                   \* main(): the directory the loop is at
    written,             \* main(): the directories whose graph.gml is written
    main_pc,             \* main(): "loop", "returned", or "raised"
    reordered,           \* stage 2: two orders of the stage-1 edges and what each yields
    policy_url,          \* driver: whether the file gives a privacy policy URL
    returncodes,         \* driver: process.returncode of every command of every file
    filename,            \* driver: the file the loop is at
    command,             \* driver: the command the inner loop is at
    started,             \* driver: the commands subprocess.run was called for, in order
    doc,                 \* expand_phrase: root_token.doc, the tokens of the sentence
    root_token,          \* expand_phrase: the head token it is called with
    expand_queue,        \* expand_phrase: its bfs_queue
    spans                \* expand_phrase: what each pass of the loop came to

dagVars == <<dg, dcall>>

docVars == <<ent_type, phrases, token_relationship>>

stage1Vars == <<stage1_graph, node_order, ntype, todo, bfs_queue, visited_nodes,
                src1, edge_view, topo, normalized_terms, coref_main, expansion, rerun>>

stage2Vars == <<stage2_graph, stage2_type, s1_edges, cur, product>>

mainVars == <<workdirs, d, written, main_pc>>

driverVars == <<policy_url, returncodes, filename, command, started>>

expandVars == <<doc, root_token, expand_queue, spans>>

otherVars == <<reordered, driverVars, expandVars>>

vars == <<dagVars, docVars, pc, stage1Vars, stage2Vars, ins, mainVars, otherVars>>

NoInsertion == [graph |-> "none", via |-> "none", relationship |-> "none"]

(***************************************************************************)
(* The edge insertions of the builder, by call site                        *)
(***************************************************************************)
\* G.add_edge called directly
insert_direct(G, e, attr) ==
    [G |-> add_edge(G, e, attr), ok |-> TRUE, via |-> "add_edge"]

\* dag_add_edge called
insert_checked(G, e, attr) ==
    LET r == dag_add_edge(G, e[1], e[2], e, attr)
    IN  [G |-> r.G, ok |-> r.ok, via |-> "dag_add_edge"]

\* line 195
step2_insert(G, e, attr) == insert_direct(G, e, attr)

\* mutant of step3_insert: the edge is added without the check
step3_insert_direct(G, e, attr) == insert_direct(G, e, attr)

\* line 257
step3_insert(G, e, attr) == insert_checked(G, e, attr)

\* mutant of stage2_insert: the edge is added without the check
stage2_insert_direct(G, e, attr) == insert_direct(G, e, attr)

\* line 353
stage2_insert(G, e, attr) == insert_checked(G, e, attr)

(***************************************************************************)
(* Stage 1                                                                 *)
(***************************************************************************)
NoTerms == [n \in {} |-> {}]

FirstPass == [pass |-> 1, first |-> NoTerms]

Stage1Idle ==
    /\ stage1_graph = EmptyGraph
    /\ node_order = <<>>
    /\ ntype = [t \in Tokens |-> "unset"]
    /\ todo = {}
    /\ bfs_queue = <<>>
    /\ visited_nodes = {}
    /\ src1 = 0
    /\ edge_view = [ins |-> {}, outs |-> {}]
    /\ topo = <<>>
    /\ normalized_terms = NoTerms
    /\ coref_main = NoTerms
    /\ expansion = NoTerms
    /\ rerun = FirstPass

RelOf(G, e) == G.edge[e].relationship

EdgesWith(G, rels) == {e \in DOMAIN G.edge : RelOf(G, e) \in rels}

\* a DiGraph over the tokens with at most MaxRelEdges labelled edges, each
\* between two different tokens
TokenPairs == {p \in Tokens \X Tokens : p[1] # p[2]}

LabelledGraphs(rels, max) ==
    {[node |-> Tokens, edge |-> f] :
        f \in UNION {[P -> [relationship : rels]] :
                        P \in {Q \in SUBSET TokenPairs : Cardinality(Q) <= max}}}

InputGraphs == LabelledGraphs(Rels, MaxRelEdges)

\* Step 1 (lines 164-177): the tokens with a known type become nodes
Step1 ==
    /\ pc = "step1"
    /\ LET typed == {t \in Tokens : ent_type[t] \in {"DATA", "ACTOR", "OTHER"}}
           coll  == EdgesWith(token_relationship, {"COLLECT", "NOT_COLLECT"})
       IN  /\ stage1_graph' = add_nodes(stage1_graph, typed)
           /\ node_order' = Ascending(typed)
           /\ ntype' = [t \in Tokens |-> IF t \in typed THEN ent_type[t] ELSE "unset"]
           /\ todo' = coll
           /\ pc' = "step2"
    /\ UNCHANGED <<dagVars, docVars, mainVars, otherVars, stage2Vars, expansion, rerun, bfs_queue, visited_nodes, src1, edge_view,
                   topo, normalized_terms, coref_main, ins>>

\* mutant of keep_edge: the edge is kept whatever the types of its endpoints
keep_edge_always(types, e) == TRUE

\* line 193: the realized types of the endpoints are ACTOR and DATA
keep_edge(types, e) == <<types[e[1]], types[e[2]]>> = <<"ACTOR", "DATA">>

\* Step 2 (lines 180-195), one COLLECT / NOT_COLLECT edge; the edges come by
\* source in node order
Step2Edge ==
    /\ pc = "step2"
    /\ \E e \in todo :
        /\ e[1] = Min({x[1] : x \in todo})
        /\ LET new1 == IF e[1] \notin stage1_graph.node THEN <<e[1]>> ELSE <<>>
               t1   == [ntype EXCEPT ![e[1]] = IF new1 # <<>> THEN "ACTOR" ELSE @]
               new2 == IF e[2] \notin stage1_graph.node \cup {e[1]} THEN <<e[2]>> ELSE <<>>
               t2   == [t1 EXCEPT ![e[2]] = IF new2 # <<>> THEN "DATA" ELSE @]
               g    == add_nodes(stage1_graph, {e[1], e[2]})
               keep == keep_edge(t2, e)
               r    == step2_insert(g, e, [relationship |-> RelOf(token_relationship, e)])
           IN  /\ ntype' = t2
               /\ node_order' = node_order \o new1 \o new2
               /\ stage1_graph' = IF keep THEN r.G ELSE g
               /\ ins' = IF keep
                         THEN [graph |-> "stage1", via |-> r.via,
                               relationship |-> RelOf(token_relationship, e)]
                         ELSE ins
        /\ todo' = todo \ {e}
    /\ UNCHANGED <<dagVars, docVars, mainVars, otherVars, stage2Vars, expansion, rerun, pc, bfs_queue, visited_nodes, src1, edge_view,
                   topo, normalized_terms, coref_main>>

\* lines 205-212: the purpose roots of a DATA node
purpose_roots(data_type) ==
    {e[2] : e \in {x \in EdgesWith(token_relationship, {"PURPOSE"}) : x[1] = data_type}}

\* mutant of edge_purposes: the pair of the first purpose root only
edge_purposes_first_only(purpose_srcs) ==
    [i \in 1..1 |->
        <<classify(purpose_text(purpose_srcs[i])), purpose_text(purpose_srcs[i])>>]

\* lines 217-221: the (category, text) pairs of a list of purpose roots
edge_purposes(purpose_srcs) ==
    [i \in 1..Len(purpose_srcs) |->
        <<classify(purpose_text(purpose_srcs[i])), purpose_text(purpose_srcs[i])>>]

\* Step 2.5 (lines 198-225) and the start of step 3 (lines 229-230); the
\* PURPOSE edges of a node come in the order of its adjacency, any order
AnnotatePurposes ==
    /\ pc = "step2"
    /\ todo = {}
    /\ LET D == {n \in stage1_graph.node : ntype[n] = "DATA" /\ purpose_roots(n) # {}}
       IN  \E purpose_src \in [D -> UNION {Orders(purpose_roots(n)) : n \in D}] :
             /\ \A n \in D : purpose_src[n] \in Orders(purpose_roots(n))
             /\ stage1_graph' =
                    [stage1_graph EXCEPT !.edge =
                        [e \in DOMAIN stage1_graph.edge |->
                            IF e[2] \in D /\ RelOf(stage1_graph, e) = "COLLECT"
                            THEN UpdateAttr(stage1_graph.edge[e],
                                            [purposes |-> edge_purposes(purpose_src[e[2]])])
                            ELSE stage1_graph.edge[e]]]
    /\ bfs_queue' = node_order
    /\ visited_nodes' = stage1_graph.node
    /\ pc' = "step3"
    /\ UNCHANGED <<dagVars, docVars, mainVars, otherVars, stage2Vars, expansion, rerun, node_order, ntype, todo,
                   src1, edge_view, topo, normalized_terms, coref_main, ins>>

\* mutant of edge_views: a node of type OTHER is expanded like the others
edge_views_of_any_type(n, phrase_type) ==
    LET sc == EdgesWith(token_relationship, {"SUBSUM", "COREF"})
    IN  [ins |-> {e \in sc : e[2] = n}, outs |-> {e \in sc : e[1] = n}]

\* lines 234-243: the SUBSUM / COREF edges into and out of the dequeued node,
\* none for a node of type OTHER
edge_views(n, phrase_type) ==
    LET sc == EdgesWith(token_relationship, {"SUBSUM", "COREF"})
    IN  IF phrase_type = "OTHER"
        THEN [ins |-> {}, outs |-> {}]
        ELSE [ins |-> {e \in sc : e[2] = n}, outs |-> {e \in sc : e[1] = n}]

\* Step 3 (lines 232-240): the next node leaves the queue
BfsPop ==
    /\ pc = "step3"
    /\ src1 = 0
    /\ bfs_queue # <<>>
    /\ LET n  == Head(bfs_queue)
           ev == edge_views(n, ntype[n])
       IN  /\ bfs_queue' = Tail(bfs_queue)
           /\ edge_view' = ev
           /\ src1' = IF ev.ins = {} /\ ev.outs = {} THEN 0 ELSE n
    /\ UNCHANGED <<dagVars, docVars, mainVars, otherVars, stage2Vars, expansion, rerun, pc, stage1_graph, node_order, ntype, todo,
                   visited_nodes, topo, normalized_terms, coref_main, ins>>

\* Step 3 (lines 242-257): one SUBSUM / COREF edge of the dequeued node, the
\* incoming edges before the outgoing ones
BfsEdge ==
    /\ pc = "step3"
    /\ src1 # 0
    /\ \E e \in (IF edge_view.ins # {} THEN edge_view.ins ELSE edge_view.outs) :
        LET phrase_type == ntype[src1]
            src2  == IF src1 = e[1] THEN e[2] ELSE e[1]
            fresh == src2 \notin stage1_graph.node
            g     == IF fresh THEN add_nodes(stage1_graph, {src2}) ELSE stage1_graph
            t2    == IF fresh THEN [ntype EXCEPT ![src2] = phrase_type] ELSE ntype
            again == fresh /\ src2 \in visited_nodes
            same  == t2[src2] = phrase_type
            r     == step3_insert(g, e, [relationship |-> RelOf(token_relationship, e)])
            ev    == IF edge_view.ins # {}
                     THEN [edge_view EXCEPT !.ins = @ \ {e}]
                     ELSE [edge_view EXCEPT !.outs = @ \ {e}]
        IN  /\ ntype' = t2
            /\ node_order' = IF fresh THEN Append(node_order, src2) ELSE node_order
            /\ visited_nodes' = IF again THEN visited_nodes \cup {src2} ELSE visited_nodes
            /\ bfs_queue' = IF again THEN Append(bfs_queue, src2) ELSE bfs_queue
            /\ stage1_graph' = IF same THEN r.G ELSE g
            /\ ins' = IF same /\ r.ok
                      THEN [graph |-> "stage1", via |-> r.via,
                            relationship |-> RelOf(token_relationship, e)]
                      ELSE ins
            /\ edge_view' = ev
            /\ src1' = IF ev.ins = {} /\ ev.outs = {} THEN 0 ELSE src1
    /\ UNCHANGED <<dagVars, docVars, mainVars, otherVars, stage2Vars, expansion, rerun, pc, todo, topo, normalized_terms, coref_main>>

\* mutant of other_nodes: no node is selected
other_nodes_none(G, types) == {}

\* line 260: the nodes of type OTHER
other_nodes(G, types) == {n \in G.node : types[n] = "OTHER"}

\* Step 4 (lines 260-261), and nx.topological_sort of line 265, which raises
\* NetworkXUnfeasible when a cycle keeps some node from being released
RemoveOther ==
    /\ pc = "step3"
    /\ src1 = 0
    /\ bfs_queue = <<>>
    /\ LET to_remove == other_nodes(stage1_graph, ntype)
           g == remove_nodes(stage1_graph, to_remove)
       IN  /\ stage1_graph' = g
           /\ node_order' = Remove(node_order, to_remove)
           /\ ntype' = [t \in Tokens |-> IF t \in to_remove THEN "unset" ELSE ntype[t]]
           /\ LET order  == Remove(node_order, to_remove)
                   sorted == topological_sort(g, order)
               IN  IF Len(sorted) < Len(order)
                   THEN pc' = "raised" /\ topo' = <<>>
                   ELSE /\ topo' = Reverse(sorted)
                        /\ pc' = IF sorted = <<>> THEN "stage2" ELSE "step5"
    /\ UNCHANGED <<dagVars, docVars, mainVars, otherVars, stage2Vars, expansion, rerun, todo, bfs_queue, visited_nodes, src1, edge_view,
                   normalized_terms, coref_main, ins>>

\* line 277-278 for the COREF edges out of src, one after the other:
\* normalized_terms is data["normalized_terms"], the set of src itself
RECURSIVE coref_terms(_, _)
coref_terms(refs, own) ==
    IF refs = {} THEN own
    ELSE LET ref_src == CHOOSE x \in refs : TRUE
         IN  coref_terms(refs \ {ref_src}, own \cup own)

\* mutant of referred_main: the referred nodes themselves
referred_main_direct(refs, mains) == refs

\* line 277: the coreference-main nodes of the nodes the COREF edges of a
\* node lead to, mains being the coref_main attributes set so far
referred_main(refs, mains) ==
    UNION {IF mains[r] # {} THEN mains[r] ELSE {r} : r \in refs}

\* mutant of Expansions: expand_phrase answers anew at every call
Expansions_unrecorded(src) ==
    {S \in (SUBSET phrases) \ {{}} : Cardinality(S) <= MaxPhrases}

\* line 286: the phrases expand_phrase yields for the token of src, the same
\* at every call
Expansions(src) ==
    IF src \in DOMAIN expansion THEN {expansion[src]}
    ELSE {S \in (SUBSET phrases) \ {{}} : Cardinality(S) <= MaxPhrases}

\* Step 5 (lines 265-319), one node of the reversed topological order
Normalize ==
    /\ pc = "step5"
    /\ topo # <<>>
    /\ topo' = Tail(topo)
    /\ LET src == Head(topo)
       IN
        /\ LET refs == {e[2] : e \in {x \in EdgesWith(stage1_graph, {"COREF"}) : x[1] = src}}
               main == referred_main(refs, coref_main)
               next == IF Tail(topo) = <<>> THEN "stage2" ELSE "step5"
               set(f, v) == [n \in DOMAIN f \cup {src} |-> IF n = src THEN v ELSE f[n]]
           IN  IF main # {}
               THEN /\ coref_main' = set(coref_main, main)
                    /\ normalized_terms' = set(normalized_terms, coref_terms(refs, {}))
                    /\ pc' = next
                    /\ UNCHANGED expansion
               ELSE \E expanded \in Expansions(src) :
                    /\ expansion' = set(expansion, expanded)
                    /\ LET res == {normalize_phrase(ntype[src], ph) : ph \in expanded}
                       IN  /\ coref_main' = set(coref_main, {src})
                           /\ normalized_terms' =
                                 set(normalized_terms, UNION {r.terms : r \in res})
                           /\ pc' = IF \E r \in res : r.raised THEN "raised" ELSE next
    /\ UNCHANGED <<dagVars, docVars, mainVars, otherVars, stage2Vars, stage1_graph, node_order, ntype, todo, bfs_queue,
                   visited_nodes, src1, edge_view, ins, rerun>>

\* Step 5 run once more on the graph it has normalized: the loop of line 265
\* starts again, over the same reversed topological order
Renormalize ==
    /\ pc = "stage2"
    /\ rerun.pass = 1
    /\ rerun' = [pass |-> 2, first |-> normalized_terms]
    /\ topo' = Reverse(topological_sort(stage1_graph, node_order))
    /\ pc' = IF stage1_graph.node = {} THEN "stage2" ELSE "step5"
    /\ UNCHANGED <<dagVars, docVars, mainVars, otherVars, stage2Vars, stage1_graph, node_order, ntype, todo, bfs_queue,
                   visited_nodes, src1, edge_view, normalized_terms, coref_main, expansion, ins>>

(***************************************************************************)
(* Stage 2                                                                 *)
(***************************************************************************)
NoTypes == [n \in {} |-> "DATA"]

Stage2Idle ==
    /\ stage2_graph = EmptyGraph
    /\ stage2_type = NoTypes
    /\ s1_edges = {}
    /\ cur = <<>>
    /\ product = {}

\* lines 326-327: add_nodes_from sets the type of a term again for every
\* node of stage 1 that normalizes to it, in node order
RECURSIVE add_term_nodes(_, _)
add_term_nodes(order, types) ==
    IF order = <<>> THEN types
    ELSE LET n == Head(order)
         IN  add_term_nodes(Tail(order),
                 [t \in DOMAIN types \cup normalized_terms[n] |->
                     IF t \in normalized_terms[n] THEN ntype[n] ELSE types[t]])

Stage2Nodes ==
    /\ pc = "stage2"
    /\ LET types == add_term_nodes(node_order, NoTypes)
       IN  /\ stage2_type' = types
           /\ stage2_graph' = add_nodes(stage2_graph, DOMAIN types)
    /\ s1_edges' = DOMAIN stage1_graph.edge
    /\ pc' = "project"
    /\ UNCHANGED <<dagVars, docVars, mainVars, otherVars, stage1Vars, cur, product, ins>>

\* lines 335-339: the terms an endpoint of an edge of stage 1 resolves to
resolved_terms(n) == UNION {normalized_terms[i] : i \in coref_main[n]}

\* lines 341-349
edge_sources(e) == coref_main[e[1]] \cup coref_main[e[2]]

edge_sentences(e) == Ascending({sentence_of(t) : t \in edge_sources(e)})

\* edge_data.get("purposes", [])
purposes_of(G, e) ==
    IF "purposes" \in DOMAIN G.edge[e] THEN G.edge[e].purposes ELSE <<>>

\* lines 329-349: the loop reaches the next edge of stage 1, by source in node
\* order; a COREF edge is passed over
Stage2Edge ==
    /\ pc = "project"
    /\ cur = <<>>
    /\ \E e \in s1_edges :
        /\ \A x \in s1_edges : Position(node_order, e[1]) <= Position(node_order, x[1])
        /\ s1_edges' = s1_edges \ {e}
        /\ IF RelOf(stage1_graph, e) = "COREF"
           THEN UNCHANGED <<cur, product>>
           ELSE LET pairs == resolved_terms(e[1]) \X resolved_terms(e[2])
                IN  /\ product' = pairs
                    /\ cur' = IF pairs = {} THEN <<>> ELSE e
    /\ UNCHANGED <<dagVars, docVars, mainVars, otherVars, pc, stage1Vars, stage2_graph, stage2_type, ins>>

has_edge(G, e) == e \in DOMAIN G.edge

Extend(G, e, attr, more) == [G EXCEPT !.edge[e][attr] = @ \o more]

\* mutant of project: the edge is inserted anew at every occurrence
project_always_insert(G, n1, n2, relationship, sources, text, purposes) ==
    LET e == <<n1, n2, relationship>>
        r == stage2_insert(G, e, [sources |-> <<>>, text |-> <<>>])
        g1 == IF r.ok /\ relationship = "COLLECT"
              THEN add_edge(r.G, e, [purposes |-> <<>>]) ELSE r.G
        g2 == Extend(Extend(g1, e, "sources", <<sources>>), e, "text", <<text>>)
        g3 == IF relationship = "COLLECT" THEN Extend(g2, e, "purposes", purposes) ELSE g2
    IN  IF ~r.ok THEN [G |-> G, inserted |-> FALSE, via |-> r.via]
        ELSE [G |-> g3, inserted |-> TRUE, via |-> r.via]

\* mutant of project: the purposes are recorded when the edge is created only
project_purposes_once(G, n1, n2, relationship, sources, text, purposes) ==
    LET e == <<n1, n2, relationship>>
        have == has_edge(G, e)
        r == stage2_insert(G, e, [sources |-> <<>>, text |-> <<>>])
        g1 == IF have THEN G
              ELSE IF relationship = "COLLECT"
                   THEN add_edge(r.G, e, [purposes |-> <<>>]) ELSE r.G
        g2 == Extend(Extend(g1, e, "sources", <<sources>>), e, "text", <<text>>)
        g3 == IF relationship = "COLLECT" /\ ~have
              THEN Extend(g2, e, "purposes", purposes) ELSE g2
    IN  IF ~have /\ ~r.ok THEN [G |-> G, inserted |-> FALSE, via |-> r.via]
        ELSE [G |-> g3, inserted |-> ~have, via |-> r.via]

\* mutant of project: every new edge is given a purposes list
project_purposes_any_label(G, n1, n2, relationship, sources, text, purposes) ==
    LET e == <<n1, n2, relationship>>
        have == has_edge(G, e)
        r == stage2_insert(G, e, [sources |-> <<>>, text |-> <<>>])
        g1 == IF have THEN G ELSE add_edge(r.G, e, [purposes |-> <<>>])
        g2 == Extend(Extend(g1, e, "sources", <<sources>>), e, "text", <<text>>)
        g3 == IF relationship = "COLLECT" THEN Extend(g2, e, "purposes", purposes) ELSE g2
    IN  IF ~have /\ ~r.ok THEN [G |-> G, inserted |-> FALSE, via |-> r.via]
        ELSE [G |-> g3, inserted |-> ~have, via |-> r.via]

\* mutant of project: the text is recorded when the edge is created only
project_text_once(G, n1, n2, relationship, sources, text, purposes) ==
    LET e == <<n1, n2, relationship>>
        have == has_edge(G, e)
        r == stage2_insert(G, e, [sources |-> <<>>, text |-> <<>>])
        g1 == IF have THEN G
              ELSE IF relationship = "COLLECT"
                   THEN add_edge(r.G, e, [purposes |-> <<>>]) ELSE r.G
        g2 == IF have THEN Extend(g1, e, "sources", <<sources>>)
              ELSE Extend(Extend(g1, e, "sources", <<sources>>), e, "text", <<text>>)
        g3 == IF relationship = "COLLECT" THEN Extend(g2, e, "purposes", purposes) ELSE g2
    IN  IF ~have /\ ~r.ok THEN [G |-> G, inserted |-> FALSE, via |-> r.via]
        ELSE [G |-> g3, inserted |-> ~have, via |-> r.via]

\* lines 352-363 for one pair of terms: G the graph afterwards, inserted
\* whether dag_add_edge added the edge, via the routine that would add it
project(G, n1, n2, relationship, sources, text, purposes) ==
    LET e == <<n1, n2, relationship>>
        have == has_edge(G, e)
        r == stage2_insert(G, e, [sources |-> <<>>, text |-> <<>>])
        g1 == IF have THEN G
              ELSE IF relationship = "COLLECT"
                   THEN add_edge(r.G, e, [purposes |-> <<>>]) ELSE r.G
        g2 == Extend(Extend(g1, e, "sources", <<sources>>), e, "text", <<text>>)
        g3 == IF relationship = "COLLECT" THEN Extend(g2, e, "purposes", purposes) ELSE g2
    IN  IF ~have /\ ~r.ok THEN [G |-> G, inserted |-> FALSE, via |-> r.via]
        ELSE [G |-> g3, inserted |-> ~have, via |-> r.via]

\* lines 351-363, one pair of the product
Stage2Pair ==
    /\ pc = "project"
    /\ cur # <<>>
    /\ \E pair \in product :
        LET relationship == RelOf(stage1_graph, cur)
            r == project(stage2_graph, pair[1], pair[2], relationship,
                         Ascending(edge_sources(cur)), edge_sentences(cur),
                         purposes_of(stage1_graph, cur))
        IN  /\ stage2_graph' = r.G
            /\ ins' = IF r.inserted
                      THEN [graph |-> "stage2", via |-> r.via, relationship |-> relationship]
                      ELSE ins
            /\ product' = product \ {pair}
            /\ cur' = IF product = {pair} THEN <<>> ELSE cur
    /\ UNCHANGED <<dagVars, docVars, mainVars, otherVars, pc, stage1Vars, stage2_type, s1_edges>>

\* mutant of edges_to_remove: of the edges into "first party" / "third party"
\* the SUBSUM edges only
edges_to_remove_subsum_only(G) ==
    {e \in DOMAIN G.edge : e[2] \in {"first party", "third party"} /\ e[3] = "SUBSUM"}
    \cup {e \in DOMAIN G.edge :
             e[1] \in {"UNSPECIFIC_DATA", "UNSPECIFIC_ENTITY"} /\ e[3] = "SUBSUM"}

\* mutant of edges_to_remove: every edge out of an UNSPECIFIC_* term
edges_to_remove_any_label(G) ==
    {e \in DOMAIN G.edge : e[2] \in {"first party", "third party"}}
    \cup {e \in DOMAIN G.edge : e[1] \in {"UNSPECIFIC_DATA", "UNSPECIFIC_ENTITY"}}

\* lines 365-375: every edge into "first party" / "third party" and every
\* SUBSUM edge out of UNSPECIFIC_DATA / UNSPECIFIC_ENTITY
edges_to_remove(G) ==
    {e \in DOMAIN G.edge : e[2] \in {"first party", "third party"}}
    \cup {e \in DOMAIN G.edge :
             e[1] \in {"UNSPECIFIC_DATA", "UNSPECIFIC_ENTITY"} /\ e[3] = "SUBSUM"}

\* lines 365-377
PostProcess ==
    /\ pc = "project"
    /\ cur = <<>>
    /\ s1_edges = {}
    /\ stage2_graph' = remove_edges(stage2_graph, edges_to_remove(stage2_graph))
    /\ pc' = "prune"
    /\ UNCHANGED <<dagVars, docVars, mainVars, otherVars, stage1Vars, stage2_type, s1_edges, cur, product, ins>>

in_degree(G, n) == Cardinality({e \in DOMAIN G.edge : e[2] = n})

out_degree(G, n) == Cardinality({e \in DOMAIN G.edge : e[1] = n})

\* mutant of isolated: the nodes no edge enters
isolated_in_degree_only(G) == {n \in G.node : in_degree(G, n) = 0}

\* line 380: the nodes no edge enters and no edge leaves
isolated(G) == {n \in G.node : in_degree(G, n) = 0 /\ out_degree(G, n) = 0}

\* lines 379-381
prune(G) == remove_nodes(G, isolated(G))

\* lines 379-383: the nodes without an edge go, and the graph is returned
Prune ==
    /\ pc = "prune"
    /\ stage2_graph' = prune(stage2_graph)
    /\ stage2_type' = [n \in prune(stage2_graph).node |-> stage2_type[n]]
    /\ pc' = "done"
    /\ UNCHANGED <<dagVars, docVars, mainVars, otherVars, stage1Vars, s1_edges, cur, product, ins>>

(***************************************************************************)
(* SpecDag: dag_add_edge called with any arguments on any graph that calls *)
(* of dag_add_edge can build                                               *)
(***************************************************************************)
DagRels == {"SUBSUM", "COREF"}

NoCall == [n1 |-> 0, n2 |-> 0, attr |-> [relationship |-> "SUBSUM"],
           before |-> EmptyGraph, ok |-> FALSE]

DagIdle ==
    /\ dg = EmptyGraph
    /\ dcall = NoCall

DocIdle ==
    /\ ent_type = [t \in Tokens |-> "NN"]
    /\ phrases = {}
    /\ token_relationship = [node |-> Tokens, edge |-> NoEdges]

MainIdle ==
    /\ workdirs = <<>>
    /\ d = 0
    /\ written = {}
    /\ main_pc = "idle"

NoOrders == [first |-> <<>>, second |-> <<>>, edges1 |-> {}, edges2 |-> {},
             kept1 |-> {}, kept2 |-> {}]

OrderIdle == reordered = NoOrders

DriverIdle ==
    /\ policy_url = <<>>
    /\ returncodes = <<>>
    /\ filename = 0
    /\ command = 0
    /\ started = <<>>

ExpandIdle ==
    /\ doc = <<>>
    /\ root_token = 0
    /\ expand_queue = <<>>
    /\ spans = <<>>

OtherIdle ==
    /\ OrderIdle
    /\ DriverIdle
    /\ ExpandIdle

InitDag ==
    /\ dg = add_nodes(EmptyGraph, DagNodes)
    /\ dcall = NoCall
    /\ DocIdle
    /\ pc = "idle"
    /\ Stage1Idle
    /\ Stage2Idle
    /\ ins = NoInsertion
    /\ MainIdle
    /\ OtherIdle

CallDagAddEdge ==
    /\ \E n1 \in DagNodes, n2 \in DagNodes, r \in DagRels :
        LET attr == [relationship |-> r]
            res  == dag_add_edge(dg, n1, n2, <<n1, n2>>, attr)
        IN  /\ dg' = res.G
            /\ dcall' = [n1 |-> n1, n2 |-> n2, attr |-> attr, before |-> dg, ok |-> res.ok]
    /\ UNCHANGED <<docVars, pc, stage1Vars, stage2Vars, ins, mainVars, otherVars>>

NextDag == CallDagAddEdge

SpecDag == InitDag /\ [][NextDag]_vars

(***************************************************************************)
(* Spec: build_graph on one document                                       *)
(***************************************************************************)
Init ==
    /\ DagIdle
    /\ ent_type \in [Tokens -> EntTypes]
    /\ phrases = PhraseInputs
    /\ token_relationship \in InputGraphs
    /\ pc = "step1"
    /\ Stage1Idle
    /\ Stage2Idle
    /\ ins = NoInsertion
    /\ MainIdle
    /\ OtherIdle

Next ==
    \/ Step1
    \/ Step2Edge
    \/ AnnotatePurposes
    \/ BfsPop
    \/ BfsEdge
    \/ RemoveOther
    \/ Normalize
    \/ Stage2Nodes
    \/ Stage2Edge
    \/ Stage2Pair
    \/ PostProcess
    \/ Prune

Spec == Init /\ [][Next]_vars

(***************************************************************************)
(* SpecMerge: build_graph on the documents whose relations are COLLECT,    *)
(* COREF and PURPOSE and whose tokens are DATA, ACTOR or of unknown type   *)
(***************************************************************************)
InitMerge ==
    /\ DagIdle
    /\ ent_type \in [Tokens -> {"NN", "DATA", "ACTOR"}]
    /\ phrases = PhraseInputs
    /\ token_relationship \in LabelledGraphs({"COLLECT", "COREF", "PURPOSE"}, MaxMergeEdges)
    /\ pc = "step1"
    /\ Stage1Idle
    /\ Stage2Idle
    /\ ins = NoInsertion
    /\ MainIdle
    /\ OtherIdle

SpecMerge == InitMerge /\ [][Next]_vars

(***************************************************************************)
(* SpecSentinel: build_graph on the documents whose phrases normalize to   *)
(* the sentinel terms "first party", "third party", UNSPECIFIC_DATA and    *)
(* UNSPECIFIC_ENTITY                                                       *)
(***************************************************************************)
InitSentinel ==
    /\ DagIdle
    /\ ent_type \in [Tokens -> {"NN", "DATA", "ACTOR"}]
    /\ phrases = PhraseSentinels
    /\ token_relationship \in LabelledGraphs({"COLLECT", "NOT_COLLECT", "SUBSUM"}, MaxRelEdges)
    /\ pc = "step1"
    /\ Stage1Idle
    /\ Stage2Idle
    /\ ins = NoInsertion
    /\ MainIdle
    /\ OtherIdle

SpecSentinel == InitSentinel /\ [][Next]_vars

(***************************************************************************)
(* SpecPurpose: build_graph on the documents whose tokens are data types   *)
(* or of unknown type, with up to MaxMergeEdges relations                  *)
(***************************************************************************)
InitPurpose ==
    /\ DagIdle
    /\ ent_type \in [Tokens -> {"NN", "DATA"}]
    /\ phrases = PhraseInputs
    /\ token_relationship
          \in LabelledGraphs({"COLLECT", "NOT_COLLECT", "PURPOSE", "SUBSUM"}, MaxMergeEdges)
    /\ pc = "step1"
    /\ Stage1Idle
    /\ Stage2Idle
    /\ ins = NoInsertion
    /\ MainIdle
    /\ OtherIdle

SpecPurpose == InitPurpose /\ [][Next]_vars

(***************************************************************************)
(* SpecRenorm: stage 1 on one document, and its normalization pass run a   *)
(* second time on the graph it returns                                     *)
(***************************************************************************)
NextRenorm ==
    \/ Step1
    \/ Step2Edge
    \/ AnnotatePurposes
    \/ BfsPop
    \/ BfsEdge
    \/ RemoveOther
    \/ Normalize
    \/ Renormalize

SpecRenorm == Init /\ [][NextRenorm]_vars

(***************************************************************************)
(* SpecOrder: stage 1 on one document, and the projection loop of stage 2  *)
(* run over the edges of the stage-1 graph in two orders                   *)
(***************************************************************************)
\* lines 351-363 for the pairs of terms of one edge of stage 1
RECURSIVE project_pairs(_, _, _)
project_pairs(G, e, pairs) ==
    IF pairs = {} THEN G
    ELSE LET pair == CHOOSE x \in pairs : TRUE
             r == project(G, pair[1], pair[2], RelOf(stage1_graph, e),
                          Ascending(edge_sources(e)), edge_sentences(e),
                          purposes_of(stage1_graph, e))
         IN  project_pairs(r.G, e, pairs \ {pair})

\* lines 329-363 with the edges of stage 1 coming in the given order
RECURSIVE project_edges(_, _)
project_edges(G, order) ==
    IF order = <<>> THEN G
    ELSE LET e == Head(order)
         IN  IF RelOf(stage1_graph, e) = "COREF"
             THEN project_edges(G, Tail(order))
             ELSE project_edges(
                      project_pairs(G, e, resolved_terms(e[1]) \X resolved_terms(e[2])),
                      Tail(order))

\* the keys of the edges of the stage-2 graph post-processing leaves
kept_edges(G) == DOMAIN remove_edges(G, edges_to_remove(G)).edge

ProjectInOrders ==
    /\ pc = "project"
    /\ reordered = NoOrders
    /\ \E o1 \in Orders(DOMAIN stage1_graph.edge), o2 \in Orders(DOMAIN stage1_graph.edge) :
          LET g1 == project_edges(stage2_graph, o1)
              g2 == project_edges(stage2_graph, o2)
          IN  reordered' = [first |-> o1, second |-> o2,
                            edges1 |-> DOMAIN g1.edge, edges2 |-> DOMAIN g2.edge,
                            kept1 |-> kept_edges(g1), kept2 |-> kept_edges(g2)]
    /\ pc' = "projected"
    /\ UNCHANGED <<dagVars, docVars, mainVars, stage1Vars, stage2Vars, ins, driverVars,
                   expandVars>>

NextOrder ==
    \/ Step1
    \/ Step2Edge
    \/ AnnotatePurposes
    \/ BfsPop
    \/ BfsEdge
    \/ RemoveOther
    \/ Normalize
    \/ Stage2Nodes
    \/ ProjectInOrders

SpecOrder == Init /\ [][NextOrder]_vars

(***************************************************************************)
(* SpecDriver: the loops of briannaRun.py over the policy files and over   *)
(* the commands of a file (lines 16-57)                                    *)
(***************************************************************************)
Files == 1..NumFiles

\* lines 45-50
commands == <<"html_crawler", "init_document", "run_annotators", "build_graph">>

InitDriver ==
    /\ DagIdle
    /\ DocIdle
    /\ pc = "idle"
    /\ Stage1Idle
    /\ Stage2Idle
    /\ ins = NoInsertion
    /\ MainIdle
    /\ OrderIdle
    /\ ExpandIdle
    /\ policy_url \in [Files -> BOOLEAN]
    /\ returncodes \in [Files -> [1..Len(commands) -> {0, 1}]]
    /\ filename = 1
    /\ command = 1
    /\ started = <<>>

\* mutant of command_failed: no return code ends the loop
command_failed_never(returncode) == FALSE

\* line 55
command_failed(returncode) == returncode # 0

\* lines 24-36: a file without a policy URL (no regular file, fewer than three
\* lines, no line with the prefix) has no command run
DriverSkipFile ==
    /\ filename \in Files
    /\ ~policy_url[filename]
    /\ filename' = filename + 1
    /\ UNCHANGED <<dagVars, docVars, pc, stage1Vars, stage2Vars, ins, mainVars, reordered,
                   expandVars, policy_url, returncodes, command, started>>

\* lines 53-57: subprocess.run of the command the loop is at; a return code
\* other than 0 breaks the loop, and the loop over the files goes on
DriverRunCommand ==
    /\ filename \in Files
    /\ policy_url[filename]
    /\ started' = Append(started, <<filename, commands[command]>>)
    /\ IF command_failed(returncodes[filename][command]) \/ command = Len(commands)
       THEN filename' = filename + 1 /\ command' = 1
       ELSE filename' = filename /\ command' = command + 1
    /\ UNCHANGED <<dagVars, docVars, pc, stage1Vars, stage2Vars, ins, mainVars, reordered,
                   expandVars, policy_url, returncodes>>

NextDriver == DriverSkipFile \/ DriverRunCommand

SpecDriver == InitDriver /\ [][NextDriver]_vars

(***************************************************************************)
(* SpecExpand: expand_phrase (lines 19-99) on one head token of a parsed   *)
(* sentence, a pass of its loop and the span it yields being one step      *)
(***************************************************************************)
Words == 1..NumWords

\* the tokens a parsed sentence is made of: dep_, whether _.src is set,
\* ent_type_, lemma_, whether whitespace_ is "", and has_alpha(text)
Kinds ==
    {[dep |-> "ROOT", src |-> TRUE, ent_type_ |-> "", lemma_ |-> "datum", glued |-> FALSE, alpha |-> TRUE],
     [dep |-> "dobj", src |-> TRUE, ent_type_ |-> "", lemma_ |-> "datum", glued |-> FALSE, alpha |-> TRUE],
     [dep |-> "amod", src |-> TRUE, ent_type_ |-> "", lemma_ |-> "personal", glued |-> FALSE, alpha |-> TRUE],
     [dep |-> "compound", src |-> TRUE, ent_type_ |-> "", lemma_ |-> "health", glued |-> TRUE, alpha |-> TRUE],
     [dep |-> "nmod", src |-> FALSE, ent_type_ |-> "", lemma_ |-> "datum", glued |-> FALSE, alpha |-> TRUE],
     [dep |-> "conj", src |-> TRUE, ent_type_ |-> "", lemma_ |-> "datum", glued |-> FALSE, alpha |-> TRUE],
     [dep |-> "appos", src |-> TRUE, ent_type_ |-> "", lemma_ |-> "datum", glued |-> FALSE, alpha |-> TRUE],
     [dep |-> "cc", src |-> TRUE, ent_type_ |-> "", lemma_ |-> "and", glued |-> FALSE, alpha |-> TRUE],
     [dep |-> "dep", src |-> TRUE, ent_type_ |-> "ORG", lemma_ |-> "datum", glued |-> FALSE, alpha |-> TRUE],
     [dep |-> "meta", src |-> TRUE, ent_type_ |-> "", lemma_ |-> "datum", glued |-> FALSE, alpha |-> TRUE],
     [dep |-> "punct", src |-> TRUE, ent_type_ |-> "", lemma_ |-> "-", glued |-> TRUE, alpha |-> FALSE],
     [dep |-> "punct", src |-> TRUE, ent_type_ |-> "", lemma_ |-> "\"", glued |-> FALSE, alpha |-> FALSE],
     [dep |-> "punct", src |-> TRUE, ent_type_ |-> "", lemma_ |-> "(", glued |-> TRUE, alpha |-> FALSE]}

\* token.head of every token is a tree: following it ends at the one token
\* that is its own head
RECURSIVE ReachesRoot(_, _, _)
ReachesRoot(h, i, k) ==
    IF h[i] = i THEN TRUE
    ELSE IF k = 0 THEN FALSE
    ELSE ReachesRoot(h, h[i], k - 1)

IsTree(h) ==
    /\ Cardinality({i \in DOMAIN h : h[i] = i}) = 1
    /\ \A i \in DOMAIN h : ReachesRoot(h, i, Len(h))

\* the parses of a sentence of NumWords tokens: the token that is its own
\* head is the one labelled ROOT, and a conjunct, an appositive and a
\* coordinating conjunction hang from a token to their left
Sentences ==
    {[i \in Words |-> [head |-> p[1][i], dep |-> p[2][i].dep, src |-> p[2][i].src,
                       ent_type_ |-> p[2][i].ent_type_, lemma_ |-> p[2][i].lemma_,
                       glued |-> p[2][i].glued, alpha |-> p[2][i].alpha]] :
        p \in {q \in [Words -> Words] \X [Words -> Kinds] :
                 /\ IsTree(q[1])
                 /\ \A i \in Words :
                      /\ (q[1][i] = i) <=> (q[2][i].dep = "ROOT")
                      /\ q[2][i].dep \in {"conj", "appos", "cc"} => q[1][i] < i}}

Max(S) == CHOOSE x \in S : \A y \in S : x >= y

\* token.children, token.lefts, token.rights, token.subtree
children(t) == {c \in DOMAIN doc : c # t /\ doc[c].head = t}

lefts(t) == {c \in children(t) : c < t}

rights(t) == {c \in children(t) : c > t}

RECURSIVE subtree(_)
subtree(t) == {t} \cup UNION {subtree(c) : c \in children(t)}

\* lines 35-37: the punctuation mark stands between two tokens with letters,
\* with no whitespace before it and none after it
bridges(t) ==
    /\ t > 1
    /\ t + 1 <= Len(doc)
    /\ doc[t - 1].glued
    /\ doc[t - 1].alpha
    /\ doc[t].glued
    /\ doc[t + 1].alpha

\* lines 44-45
left_modifier(t) ==
    /\ doc[t].dep \in {"amod", "nmod", "nummod", "compound"}
    /\ t < doc[t].head

\* lines 25-51
RECURSIVE should_include(_, _)
should_include(current_token, in_left_modifier) ==
    IF ~doc[current_token].src THEN FALSE
    ELSE IF doc[current_token].dep \in {"dep", "meta"}
    THEN doc[current_token].ent_type_ # ""
    ELSE IF /\ doc[current_token].dep = "punct"
            /\ ~(bridges(current_token) \/ doc[current_token].ent_type_ # "" \/ in_left_modifier)
    THEN FALSE
    ELSE \A c \in children(current_token) :
             should_include(c, in_left_modifier \/ left_modifier(current_token))

\* lines 62-64 and 78-80: the indices of the subtree have no gap
contiguous(S) == Max(S) - Min(S) = Cardinality(S) - 1

\* lines 59-70: the left children from the nearest on, up to the first that
\* is not taken
RECURSIVE left_scan(_, _)
left_scan(todo_lefts, left_idx) ==
    IF todo_lefts = {} THEN left_idx
    ELSE LET child == Max(todo_lefts)
             child_indices == subtree(child)
         IN  IF /\ should_include(child, FALSE)
                /\ contiguous(child_indices)
                /\ left_idx - 1 = Max(child_indices)
             THEN left_scan(todo_lefts \ {child}, Min(child_indices))
             ELSE left_idx

\* mutant of continuation: no dependent is a continuation
continuation_never(child) == FALSE

\* line 74
continuation(child) == doc[child].dep \in {"conj", "appos"}

\* lines 72-86: the right children from the nearest on; right_idx is the index
\* after the last token taken
RECURSIVE right_scan(_, _)
right_scan(todo_rights, right_idx) ==
    IF todo_rights = {} THEN [right_idx |-> right_idx, append |-> <<>>]
    ELSE LET child == Min(todo_rights)
             child_indices == subtree(child)
         IN  IF continuation(child)
             THEN [right_idx |-> right_idx, append |-> <<child>>]
             ELSE IF /\ should_include(child, FALSE)
                     /\ contiguous(child_indices)
                     /\ right_idx = Min(child_indices)
             THEN right_scan(todo_rights \ {child}, Max(child_indices) + 1)
             ELSE [right_idx |-> right_idx, append |-> <<>>]

\* lines 89-90
strip_cc(right_idx) ==
    IF doc[right_idx - 1].dep = "cc" THEN right_idx - 1 ELSE right_idx

\* doc[i]: an index below the first token counts from the end, and one
\* outside the sentence raises IndexError (0 here)
Index(i) ==
    IF i \in 1..Len(doc) THEN i
    ELSE IF i + Len(doc) \in 1..Len(doc) THEN i + Len(doc)
    ELSE 0

\* the lemmas of one character that are in '"\'([' and in '"\')]'
OpeningMarks == {"\"", "'", "(", "["}

ClosingMarks == {"\"", "'", ")", "]"}

\* lines 93-94
RECURSIVE strip_left(_)
strip_left(left_idx) ==
    IF Index(left_idx) = 0 THEN [raised |-> TRUE, idx |-> left_idx]
    ELSE IF doc[Index(left_idx)].lemma_ \in OpeningMarks THEN strip_left(left_idx + 1)
    ELSE [raised |-> FALSE, idx |-> left_idx]

\* lines 96-97
RECURSIVE strip_right(_)
strip_right(right_idx) ==
    IF Index(right_idx - 1) = 0 THEN [raised |-> TRUE, idx |-> right_idx]
    ELSE IF doc[Index(right_idx - 1)].lemma_ \in ClosingMarks THEN strip_right(right_idx - 1)
    ELSE [raised |-> FALSE, idx |-> right_idx]

\* the head tokens expand_phrase is called with: tokens of a phrase, with a
\* source mapping and letters
Heads(sentence) ==
    {t \in DOMAIN sentence :
        /\ sentence[t].src
        /\ sentence[t].lemma_ \notin OpeningMarks \cup ClosingMarks \cup {"-", "and"}}

InitExpand ==
    /\ DagIdle
    /\ DocIdle
    /\ pc = "idle"
    /\ Stage1Idle
    /\ Stage2Idle
    /\ ins = NoInsertion
    /\ MainIdle
    /\ OrderIdle
    /\ DriverIdle
    /\ doc \in Sentences
    /\ root_token \in Heads(doc)
    /\ expand_queue = <<root_token>>
    /\ spans = <<>>

\* lines 56-99: one pass of the loop. left_idx is the index of the first token
\* and right_idx the index after the last, before lines 88-97 (left_idx,
\* right_idx) and after them (start, end)
ExpandToken ==
    /\ expand_queue # <<>>
    /\ LET token == Head(expand_queue)
           left_idx == left_scan(lefts(token), token)
           right == right_scan(rights(token), token + 1)
           start == strip_left(left_idx)
           end == strip_right(strip_cc(right.right_idx))
       IN  /\ spans' = Append(spans, [token |-> token, left_idx |-> left_idx,
                                      right_idx |-> right.right_idx,
                                      start |-> start.idx, end |-> end.idx,
                                      append |-> right.append,
                                      raised |-> start.raised \/ end.raised])
           /\ expand_queue' = IF start.raised \/ end.raised THEN <<>>
                              ELSE Tail(expand_queue) \o right.append
    /\ UNCHANGED <<dagVars, docVars, pc, stage1Vars, stage2Vars, ins, mainVars, reordered,
                   driverVars, doc, root_token>>

NextExpand == ExpandToken

SpecExpand == InitExpand /\ [][NextExpand]_vars

\* the generator is run to its end by the loop that consumes it
SpecExpandFair == SpecExpand /\ WF_vars(NextExpand)

(***************************************************************************)
(* SpecMain: the loop of main() over the input directories (lines 437-445) *)
(***************************************************************************)
\* what the calls of one iteration do: all return, PolicyDocument.load raises,
\* or build_graph raises
Outcomes == {"ok", "load raises", "build_graph raises"}

Docs == 1..NumDocs

InitMain ==
    /\ DagIdle
    /\ DocIdle
    /\ pc = "idle"
    /\ Stage1Idle
    /\ Stage2Idle
    /\ ins = NoInsertion
    /\ workdirs \in [Docs -> Outcomes]
    /\ d = 1
    /\ written = {}
    /\ main_pc = "loop"
    /\ OtherIdle

\* lines 438-445, every call returns: graph.gml of the directory is written
MainDocument ==
    /\ main_pc = "loop"
    /\ d <= NumDocs
    /\ workdirs[d] = "ok"
    /\ written' = written \cup {d}
    /\ d' = d + 1
    /\ main_pc' = IF d = NumDocs THEN "returned" ELSE "loop"
    /\ UNCHANGED <<dagVars, docVars, pc, stage1Vars, stage2Vars, ins, otherVars, workdirs>>

\* lines 440-441, a call raises: no handler is in main(), the exception
\* leaves the loop and ends the run
MainRaise ==
    /\ main_pc = "loop"
    /\ d <= NumDocs
    /\ workdirs[d] # "ok"
    /\ main_pc' = "raised"
    /\ UNCHANGED <<dagVars, docVars, pc, stage1Vars, stage2Vars, ins, otherVars, workdirs, d, written>>

NextMain == MainDocument \/ MainRaise

SpecMain == InitMain /\ [][NextMain]_vars

(***************************************************************************)
(* Properties                                                              *)
(***************************************************************************)
Stage1Complete == pc \in {"stage2", "project", "prune", "done"}

Projecting == pc \in {"project", "prune", "done"}

\* C1: at every point of the construction the stage-1 graph and the stage-2
\* graph hold no directed cycle and no self-loop, and the topological sort of
\* the normalization never fails.
C1_Acyclic ==
    /\ IsAcyclic(stage1_graph)
    /\ IsAcyclic(stage2_graph)
    /\ pc # "raised"

\* a SUBSUM / COREF relation between two nodes of one type was refused by
\* stage 1 because the opposite path was there, and the run went on to the end
\* of stage 2 with an edge in the stage-2 graph
C1_Witness ==
    /\ pc = "prune"
    /\ DOMAIN stage2_graph.edge # {}
    /\ \E e \in EdgesWith(token_relationship, {"SUBSUM", "COREF"}) :
          /\ {e[1], e[2]} \subseteq stage1_graph.node
          /\ ntype[e[1]] = ntype[e[2]]
          /\ e \notin DOMAIN stage1_graph.edge
          /\ HasPath(stage1_graph, e[2], e[1])

\* C2: dag_add_edge(G, u, v) on an acyclic G fails and inserts nothing exactly
\* when u = v or a path leads from v to u; otherwise it inserts u -> v with the
\* given attributes and succeeds; its result says whether the edge was inserted.
C2_DagAddEdgeContract ==
    dcall.n1 # 0 =>
        LET u == dcall.n1
            v == dcall.n2
            closes == u = v \/ HasPath(dcall.before, v, u)
        IN  /\ dcall.ok <=> ~closes
            /\ dcall.ok <=> <<u, v>> \in DOMAIN dg.edge
            /\ closes => Arcs(dg) = Arcs(dcall.before)
            /\ ~closes => /\ Arcs(dg) = Arcs(dcall.before) \cup {<<u, v>>}
                           /\ dg.edge[<<u, v>>] = dcall.attr

\* a call refused because of a path of two edges or more from v to u
C2_Witness ==
    /\ dcall.n1 # 0
    /\ ~dcall.ok
    /\ dcall.n1 # dcall.n2
    /\ <<dcall.n2, dcall.n1>> \notin Arcs(dcall.before)
    /\ IsAcyclic(dcall.before)

\* C3: a refused dag_add_edge leaves the node set, the edge set and every edge
\* attribute as they were; after A -> B, the call for B -> A is refused and
\* A -> B is still there with its attributes.
C3_RejectedLeavesGraph ==
    dcall.n1 # 0 =>
        /\ ~dcall.ok => dg = dcall.before
        /\ <<dcall.n2, dcall.n1>> \in DOMAIN dcall.before.edge =>
              /\ ~dcall.ok
              /\ <<dcall.n2, dcall.n1>> \in DOMAIN dg.edge
              /\ dg.edge[<<dcall.n2, dcall.n1>>] = dcall.before.edge[<<dcall.n2, dcall.n1>>]

\* B -> A was asked for while A -> B was an edge
C3_Witness ==
    /\ dcall.n1 # 0
    /\ ~dcall.ok
    /\ <<dcall.n2, dcall.n1>> \in DOMAIN dcall.before.edge

HasCoref(n) == \E e \in EdgesWith(stage1_graph, {"COREF"}) : e[1] = n

\* C4: when stage 1 is complete, the normalized terms of every node with an
\* outgoing COREF edge are the union of the normalized terms of its
\* coreference-main targets.
C4_CorefTermsCopied ==
    Stage1Complete =>
        \A n \in stage1_graph.node :
            HasCoref(n) =>
                normalized_terms[n] = UNION {normalized_terms[m] : m \in coref_main[n]}

\* C5: when a run of main() over several directories has ended, every
\* directory whose own calls raise nothing has its graph written: a failing
\* document is caught and the later ones are still processed.
C5_LaterDocumentsProcessed ==
    main_pc \in {"returned", "raised"} =>
        \A i \in Docs : workdirs[i] = "ok" => i \in written

\* C6: every term of the stage-2 graph has the type of every stage-1 node
\* whose normalized terms contain it.
C6_TermTypeConsistent ==
    Projecting =>
        \A t \in stage2_graph.node : \A n \in stage1_graph.node :
            t \in normalized_terms[n] => stage2_type[t] = ntype[n]

\* C7: when stage 1 is complete, every node left in the stage-1 graph has a
\* non-empty set of normalized terms.
C7_NonEmptyTerms ==
    Stage1Complete =>
        \A n \in stage1_graph.node : normalized_terms[n] # {}

\* the edges of stage 1 the loop of stage 2 has projected onto the key e of
\* the stage-2 graph so far
Contributing(e) ==
    {f \in DOMAIN stage1_graph.edge :
        /\ RelOf(stage1_graph, f) = e[3]
        /\ e[1] \in resolved_terms(f[1])
        /\ e[2] \in resolved_terms(f[2])
        /\ f \notin s1_edges
        /\ ~(f = cur /\ <<e[1], e[2]>> \in product)}

\* C8: every aggregated edge of the stage-2 graph holds exactly one provenance
\* entry and one text entry for each stage-1 edge projected onto its (source
\* term, target term, label), so occurrences merge into one edge; a projected
\* pair has no edge only where the insertion would have closed a cycle.
C8_OneMergedEdge ==
    Projecting =>
        /\ \A e \in DOMAIN stage2_graph.edge :
              /\ Len(stage2_graph.edge[e].sources) = Cardinality(Contributing(e))
              /\ Len(stage2_graph.edge[e].text) = Cardinality(Contributing(e))
              /\ Range(stage2_graph.edge[e].sources)
                    = {Ascending(edge_sources(f)) : f \in Contributing(e)}
        /\ pc = "project" =>
              \A f \in EdgesWith(stage1_graph, {"COLLECT", "NOT_COLLECT", "SUBSUM"}) :
                \A pair \in resolved_terms(f[1]) \X resolved_terms(f[2]) :
                    LET e == <<pair[1], pair[2], RelOf(stage1_graph, f)>>
                    IN  f \in Contributing(e) =>
                          \/ e \in DOMAIN stage2_graph.edge
                          \/ pair[1] = pair[2]
                          \/ HasPath(stage2_graph, pair[2], pair[1])

\* two occurrences of a data type, one a coreference of the other, are both
\* collected and their two COLLECT edges lie on one edge of the stage-2 graph
C8_Witness ==
    /\ pc = "done"
    /\ \E e \in DOMAIN stage2_graph.edge :
          /\ Len(stage2_graph.edge[e].sources) = 2
          /\ \E f \in Contributing(e) : HasCoref(f[2])

RECURSIVE PurposePairs(_)
PurposePairs(fs) ==
    IF fs = {} THEN 0
    ELSE LET f == CHOOSE x \in fs : TRUE
         IN  Len(purposes_of(stage1_graph, f)) + PurposePairs(fs \ {f})

\* C9: the purpose list of every COLLECT edge of the stage-2 graph is as long
\* as the purpose lists of the stage-1 COLLECT edges collapsed into it taken
\* together.
C9_PurposeCount ==
    Projecting =>
        \A e \in DOMAIN stage2_graph.edge :
            e[3] = "COLLECT" =>
                Len(stage2_graph.edge[e].purposes) = PurposePairs(Contributing(e))

\* a COLLECT edge of stage 2 made of two stage-1 edges, one with a purpose
\* and one without
C9_Witness ==
    /\ pc = "done"
    /\ \E e \in DOMAIN stage2_graph.edge :
          /\ e[3] = "COLLECT"
          /\ Cardinality(Contributing(e)) = 2
          /\ Len(stage2_graph.edge[e].purposes) >= 1
          /\ \E f \in Contributing(e) : purposes_of(stage1_graph, f) = <<>>

\* C10 as stated: every insertion of an edge into the stage-1 or the stage-2
\* graph goes through dag_add_edge.
C10_AlwaysChecked == ins.via # "add_edge"

\* C10 amended: every SUBSUM / COREF edge of stage 1 and every edge of stage 2
\* is inserted by dag_add_edge; the COLLECT / NOT_COLLECT edges of stage 1 are
\* inserted directly, at a time when every edge runs from an ACTOR to a DATA.
C10_CheckedExceptCollect ==
    /\ ins.graph = "stage2" => ins.via = "dag_add_edge"
    /\ (ins.graph = "stage1" /\ ins.relationship \in {"SUBSUM", "COREF"})
          => ins.via = "dag_add_edge"
    /\ (ins.graph = "stage1" /\ ins.relationship \in {"COLLECT", "NOT_COLLECT"})
          => ins.via = "add_edge"
    /\ pc = "step2" =>
          \A e \in DOMAIN stage1_graph.edge :
              ntype[e[1]] = "ACTOR" /\ ntype[e[2]] = "DATA"

\* a SUBSUM edge went into a stage-1 graph that holds a COLLECT edge
C10_Witness ==
    /\ ins = [graph |-> "stage1", via |-> "dag_add_edge", relationship |-> "SUBSUM"]
    /\ EdgesWith(stage1_graph, {"COLLECT"}) # {}

\* C11: the graph stage 2 returns has no node that no edge enters and no edge
\* leaves, the nodes whose edges post-processing removed included, and pruning
\* it once more removes nothing.
C11_PruningFixedPoint ==
    pc = "done" =>
        /\ \A n \in stage2_graph.node :
              \E e \in DOMAIN stage2_graph.edge : e[1] = n \/ e[2] = n
        /\ prune(stage2_graph) = stage2_graph

\* the only edge of stage 1 was a SUBSUM edge into "first party": its edge in
\* the stage-2 graph was removed and its source term was pruned for that
C11_Witness ==
    /\ pc = "done"
    /\ Cardinality(DOMAIN stage1_graph.edge) = 1
    /\ \E f \in EdgesWith(stage1_graph, {"SUBSUM"}) :
          /\ "first party" \in resolved_terms(f[2])
          /\ \E t1 \in resolved_terms(f[1]) : t1 # "first party" /\ t1 \notin stage2_graph.node

UNSPECIFIC == {"UNSPECIFIC_DATA", "UNSPECIFIC_ENTITY"}

NoUnspecificSubsum ==
    \A e \in DOMAIN stage2_graph.edge : ~(e[1] \in UNSPECIFIC /\ e[3] = "SUBSUM")

\* post-processing or pruning is the step taken
AfterProjection == pc \in {"project", "prune"} /\ pc' \in {"prune", "done"} /\ pc' # pc

C14_EdgeLabelsAndAttributes ==
    Projecting =>
        \A e \in DOMAIN stage2_graph.edge :
            /\ e[3] \in {"COLLECT", "NOT_COLLECT", "SUBSUM"}
            /\ DOMAIN stage2_graph.edge[e] =
                  IF e[3] = "COLLECT" THEN {"sources", "text", "purposes"}
                  ELSE {"sources", "text"}
            /\ Len(stage2_graph.edge[e].sources) >= 1
            /\ Len(stage2_graph.edge[e].text) >= 1

\* the returned graph holds a COLLECT edge and an edge of another label
C14_Witness ==
    /\ pc = "done"
    /\ \E e \in DOMAIN stage2_graph.edge : e[3] = "COLLECT"
    /\ \E e \in DOMAIN stage2_graph.edge : e[3] # "COLLECT"

Neighbours(t) ==
    {u \in Tokens : \E e \in EdgesWith(token_relationship, {"SUBSUM", "COREF"}) :
                        {e[1], e[2]} = {t, u}}

CollectEndpoints ==
    UNION {{e[1], e[2]} : e \in EdgesWith(token_relationship, {"COLLECT", "NOT_COLLECT"})}

\* a token of unknown type, at no end of a COLLECT / NOT_COLLECT relation and
\* with no SUBSUM / COREF relation to a node of type DATA or ACTOR
Untypable(t) ==
    /\ ent_type[t] = "NN"
    /\ t \notin CollectEndpoints
    /\ \A u \in Neighbours(t) : ntype[u] \notin {"DATA", "ACTOR"}

\* C16: a token of unknown type that is at no end of a COLLECT / NOT_COLLECT
\* relation and has no SUBSUM / COREF relation to a typed node is never given
\* a type, is never a node of the stage-1 graph, and the run raises nothing.
C16_UntypedExcluded ==
    \A t \in Tokens :
        Untypable(t) =>
            /\ ntype[t] = "unset"
            /\ t \notin stage1_graph.node
            /\ t \notin Range(node_order)
            /\ pc # "raised"

\* stage 1 ended with a node in its graph and without a token of unknown type
\* whose only relation is a SUBSUM / COREF relation to a token of type OTHER
C16_Witness ==
    /\ pc = "stage2"
    /\ stage1_graph.node # {}
    /\ \E t \in Tokens :
          /\ Untypable(t)
          /\ \E u \in Neighbours(t) : ent_type[u] = "OTHER"

\* the tokens of unknown type a chain of SUBSUM / COREF relations through
\* tokens without a type at the start of step 3 joins to the nodes of S
RECURSIVE Chain(_)
Chain(S) ==
    LET next == {u \in Tokens \ visited_nodes : \E v \in S : u \in Neighbours(v)} \ S
    IN  IF next = {} THEN S ELSE Chain(S \cup next)

\* C17: when stage 1 is complete, every token joined to a seeded DATA or ACTOR
\* node by a chain of SUBSUM / COREF relations of any length through untyped
\* tokens has a type and is a node of the stage-1 graph.
C17_TransitivePropagation ==
    Stage1Complete =>
        \A t \in Chain(visited_nodes \cap stage1_graph.node) :
            t \in stage1_graph.node /\ ntype[t] \in {"DATA", "ACTOR"}

\* C18: every COLLECT / NOT_COLLECT edge of the stage-1 graph runs from an
\* ACTOR node to a DATA node and every SUBSUM / COREF edge joins two nodes of
\* one type; once step 2 is over both ends of every COLLECT / NOT_COLLECT
\* relation of the document are nodes, an end of unknown type that no earlier
\* relation typed being ACTOR as a source and DATA as a target, and the
\* relation is an edge exactly when its ends are an ACTOR and a DATA.
C18_EdgeEndpointTypes ==
    /\ \A e \in DOMAIN stage1_graph.edge :
          IF RelOf(stage1_graph, e) \in {"COLLECT", "NOT_COLLECT"}
          THEN ntype[e[1]] = "ACTOR" /\ ntype[e[2]] = "DATA"
          ELSE ntype[e[1]] = ntype[e[2]] /\ ntype[e[1]] \in {"DATA", "ACTOR"}
    /\ pc = "step3" =>
          \A e \in EdgesWith(token_relationship, {"COLLECT", "NOT_COLLECT"}) :
              /\ {e[1], e[2]} \subseteq stage1_graph.node
              /\ (/\ ent_type[e[1]] = "NN"
                  /\ \A x \in EdgesWith(token_relationship, {"COLLECT", "NOT_COLLECT"}) :
                        x[2] # e[1]) => ntype[e[1]] = "ACTOR"
              /\ (/\ ent_type[e[2]] = "NN"
                  /\ \A x \in EdgesWith(token_relationship, {"COLLECT", "NOT_COLLECT"}) :
                        x[1] # e[2]) => ntype[e[2]] = "DATA"
              /\ e \in DOMAIN stage1_graph.edge
                    <=> (ntype[e[1]] = "ACTOR" /\ ntype[e[2]] = "DATA")
              /\ e \in DOMAIN stage1_graph.edge
                    => RelOf(stage1_graph, e) = RelOf(token_relationship, e)

\* step 2 is over: a COLLECT relation between two tokens of unknown type is
\* an edge, and another COLLECT / NOT_COLLECT relation of the document is not
C18_Witness ==
    /\ pc = "step3"
    /\ \E e \in EdgesWith(stage1_graph, {"COLLECT"}) :
          ent_type[e[1]] = "NN" /\ ent_type[e[2]] = "NN"
    /\ \E e \in EdgesWith(token_relationship, {"COLLECT", "NOT_COLLECT"}) :
          e \notin DOMAIN stage1_graph.edge

\* C19: a node of type OTHER is a token the seeding typed OTHER, it is at no
\* end of an edge of the stage-1 graph, and it is gone when normalization
\* starts: every node normalization meets is of type DATA or ACTOR and the
\* invalid-type error is never raised.
C19_OtherNeverPropagates ==
    /\ \A t \in Tokens : ntype[t] = "OTHER" => ent_type[t] = "OTHER"
    /\ \A e \in DOMAIN stage1_graph.edge : ntype[e[1]] # "OTHER" /\ ntype[e[2]] # "OTHER"
    /\ pc \notin {"step1", "step2", "step3"} =>
          \A n \in stage1_graph.node : ntype[n] \in {"DATA", "ACTOR"}
    /\ pc # "raised"

\* normalization is under way on a document with a token of type OTHER that
\* has a SUBSUM / COREF relation to a node of the stage-1 graph
C19_Witness ==
    /\ pc = "step5"
    /\ \E t \in Tokens :
          /\ ent_type[t] = "OTHER"
          /\ t \notin stage1_graph.node
          /\ \E u \in Neighbours(t) : u \in stage1_graph.node

\* the purpose roots of a data type: the targets of its PURPOSE relations
PurposeRootsOf(n) ==
    {p \in Tokens : /\ <<n, p>> \in DOMAIN token_relationship.edge
                    /\ token_relationship.edge[<<n, p>>].relationship = "PURPOSE"}

\* C20: once the purposes are attached, every COLLECT edge of the stage-1
\* graph into a DATA node with a PURPOSE relation carries one (category, text)
\* pair for each PURPOSE relation of the node, the category being the label
\* the classifier gives the text; every other edge carries no purposes.
C20_PurposesAttached ==
    pc \notin {"step1", "step2"} =>
        \A e \in DOMAIN stage1_graph.edge :
            LET roots == PurposeRootsOf(e[2])
                attr  == stage1_graph.edge[e]
            IN  IF attr.relationship = "COLLECT" /\ roots # {}
                THEN /\ "purposes" \in DOMAIN attr
                     /\ Len(attr.purposes) = Cardinality(roots)
                     /\ \A p \in roots :
                           Cardinality({i \in 1..Len(attr.purposes) :
                               attr.purposes[i] = <<classify(purpose_text(p)), purpose_text(p)>>})
                           = Cardinality({q \in roots : purpose_text(q) = purpose_text(p)})
                ELSE "purposes" \notin DOMAIN attr

\* a COLLECT edge carries the pairs of two purposes of different categories
C20_Witness ==
    /\ pc = "step3"
    /\ \E e \in EdgesWith(stage1_graph, {"COLLECT"}) :
          /\ Len(purposes_of(stage1_graph, e)) = 2
          /\ purposes_of(stage1_graph, e)[1][1] # purposes_of(stage1_graph, e)[2][1]

\* C21: whenever normalization comes to a node, every node its COREF edges
\* lead to has been visited before it and has its coreference-main set and its
\* set of normalized terms; the nodes still to come are visited after every
\* node their edges lead to.
C21_TargetsNormalizedFirst ==
    pc = "step5" =>
        /\ \A e \in EdgesWith(stage1_graph, {"COREF"}) :
              e[1] = Head(topo) =>
                  /\ e[2] \notin Range(topo)
                  /\ e[2] \in DOMAIN coref_main
                  /\ e[2] \in DOMAIN normalized_terms
                  /\ coref_main[e[2]] # {}
        /\ \A e \in DOMAIN stage1_graph.edge :
              e[2] \in Range(topo) =>
                  /\ e[1] \in Range(topo)
                  /\ Position(topo, e[2]) < Position(topo, e[1])

\* normalization is at a node whose COREF edge leads to a node that has a term
C21_Witness ==
    /\ pc = "step5"
    /\ \E e \in EdgesWith(stage1_graph, {"COREF"}) :
          /\ e[1] = Head(topo)
          /\ e[2] \in DOMAIN normalized_terms
          /\ normalized_terms[e[2]] # {}

\* C26: at every point of the projection, the provenance list and the text
\* list of every edge of the stage-2 graph have one length, at least 1, the
\* number of stage-1 edges projected onto the key of the edge so far.
C26_ListsGrowTogether ==
    pc = "project" =>
        \A e \in DOMAIN stage2_graph.edge :
            /\ Len(stage2_graph.edge[e].sources) = Len(stage2_graph.edge[e].text)
            /\ Len(stage2_graph.edge[e].sources) >= 1
            /\ Len(stage2_graph.edge[e].sources) = Cardinality(Contributing(e))

\* the projection is under way: an edge of the stage-2 graph holds two
\* occurrences and an edge of stage 1 is still to come
C26_Witness ==
    /\ pc = "project"
    /\ s1_edges # {}
    /\ \E e \in DOMAIN stage2_graph.edge : Len(stage2_graph.edge[e].text) = 2

\* C27: when stage 1 is complete, the coreference-main set of every node is
\* not empty and holds nodes of the stage-1 graph without an outgoing COREF
\* edge only, every one of them with a set of normalized terms; the set of a
\* node without an outgoing COREF edge is the node alone.
C27_CorefMainResolved ==
    Stage1Complete =>
        /\ DOMAIN coref_main = stage1_graph.node
        /\ \A n \in stage1_graph.node :
              /\ coref_main[n] # {}
              /\ coref_main[n] \subseteq stage1_graph.node
              /\ \A m \in coref_main[n] : ~HasCoref(m) /\ m \in DOMAIN normalized_terms
              /\ ~HasCoref(n) => coref_main[n] = {n}

\* stage 1 is complete on a chain of two COREF edges: the first node of the
\* chain has the last one as its coreference-main node
C27_Witness ==
    /\ pc = "stage2"
    /\ \E e \in EdgesWith(stage1_graph, {"COREF"}) :
        \E f \in EdgesWith(stage1_graph, {"COREF"}) :
            e[2] = f[1] /\ coref_main[e[1]] = {f[2]}

\* C24: the projection loop run over the same edges of stage 1 in any two
\* orders yields the same keys (source term, target term, label) of edges,
\* before post-processing and after it.
C24_OrderIndependent ==
    reordered # NoOrders =>
        /\ reordered.edges1 = reordered.edges2
        /\ reordered.kept1 = reordered.kept2

\* the commands started for a file, in the order they were started
StartedFor(f) == SelectSeq(started, LAMBDA x : x[1] = f)

\* the commands of a file up to the first whose return code is not 0
RECURSIVE Due(_, _)
Due(f, k) ==
    IF k > Len(commands) THEN 0
    ELSE IF returncodes[f][k] # 0 THEN 1
    ELSE 1 + Due(f, k + 1)

\* C25: the commands of a file are started in the order html_crawler,
\* init_document, run_annotators, build_graph, each only after every earlier
\* one of the file returned 0; after the first failure no command of the file
\* is started, and the files after it have their commands run all the same.
C25_CommandsInOrder ==
    filename # 0 =>
        /\ \A i \in 1..Len(started) : \A j \in 1..Len(started) :
              i < j => started[i][1] <= started[j][1]
        /\ \A f \in Files :
              /\ Len(StartedFor(f)) <= Len(commands)
              /\ \A k \in 1..Len(StartedFor(f)) :
                    /\ StartedFor(f)[k] = <<f, commands[k]>>
                    /\ \A j \in 1..(k - 1) : returncodes[f][j] = 0
              /\ f < filename =>
                    Len(StartedFor(f)) = IF policy_url[f] THEN Due(f, 1) ELSE 0

\* the loop over the files is over: the second command of the first file
\* failed, and the four commands of the last file were started
C25_Witness ==
    /\ filename = NumFiles + 1
    /\ Len(StartedFor(1)) = 2
    /\ returncodes[1][2] # 0
    /\ Len(StartedFor(NumFiles)) = Len(commands)

\* the tokens between the two indices of a pass before lines 88-97
Taken(s) == s.left_idx..(s.right_idx - 1)

RECURSIVE Appended(_)
Appended(q) == IF q = <<>> THEN <<>> ELSE Head(q).append \o Appended(Tail(q))

\* "X and Y": a coordinating conjunction with no dependent of its own and a
\* conjunct follow the head and hang from it
XandY ==
    /\ root_token + 2 <= Len(doc)
    /\ doc[root_token + 1].dep = "cc"
    /\ doc[root_token + 1].head = root_token
    /\ children(root_token + 1) = {}
    /\ doc[root_token + 2].dep = "conj"
    /\ doc[root_token + 2].head = root_token

ExpandDone == doc # <<>> /\ expand_queue = <<>>

ExpandRoots ==
    doc # <<>> =>
        /\ \A k \in 1..Len(spans) : ~spans[k].raised
        /\ [k \in 1..Len(spans) |-> spans[k].token] \o expand_queue
               = <<root_token>> \o Appended(spans)
        /\ \A k \in 1..Len(spans) : \A j \in 1..Len(spans) :
               spans[k].token = spans[j].token => k = j
        /\ \A k \in 1..Len(spans) : \A c \in children(spans[k].token) :
               doc[c].dep \in {"conj", "appos"} => c \notin Taken(spans[k])
        /\ ExpandDone /\ XandY =>
               /\ Len(spans) >= 2
               /\ spans[1].end = root_token + 1
               /\ spans[2].token = root_token + 2

passes(t, in_left_modifier) ==
    /\ doc[t].src
    /\ doc[t].dep \in {"dep", "meta"} => doc[t].ent_type_ # ""
    /\ doc[t].dep = "punct" =>
           bridges(t) \/ doc[t].ent_type_ # "" \/ in_left_modifier

RECURSIVE SubtreePasses(_, _)
SubtreePasses(t, in_left_modifier) ==
    /\ passes(t, in_left_modifier)
    /\ \A c \in children(t) : SubtreePasses(c, in_left_modifier \/ left_modifier(t))

Absorbed(s) == {c \in children(s.token) : c \in Taken(s)}

\* C23: every dependent taken into a span has a subtree of which every token
\* passes the inclusion predicate and whose indices have no gap; no dependent
\* is taken beyond one that is not; and the tokens taken are the root and the
\* subtrees of the dependents taken, an interval of indices.
C23_AbsorbedSubtreesPass ==
    \A k \in 1..Len(spans) :
        LET s == spans[k]
        IN  /\ s.token \in Taken(s)
            /\ Taken(s) = {s.token} \cup UNION {subtree(c) : c \in Absorbed(s)}
            /\ \A c \in Absorbed(s) :
                  /\ SubtreePasses(c, FALSE)
                  /\ contiguous(subtree(c))
            /\ \A c \in Absorbed(s) : \A c2 \in children(s.token) :
                  (c < c2 /\ c2 < s.token) \/ (s.token < c2 /\ c2 < c) => c2 \in Absorbed(s)

====
